---- MODULE Spec2Model ----
(***************************************************************************)
(* A model of the rust-state-machine runtime: the System pallet (block     *)
(* number, nonces), the Balances pallet (balances, transfer) and the       *)
(* Proof-of-Existence pallet (claims).  Every pallet method is a pure      *)
(* operator over the pallet's storage, written as the Rust code computes   *)
(* it; every action is one call of one method on the runtime.              *)
(***************************************************************************)
EXTENDS Integers, Sequences, FiniteSets, TLC

(* ------------------------------------------------------------------ *)
(* Config: the associated types of the pallets                          *)
(* ------------------------------------------------------------------ *)

\* largest value of T::Balance (the type is generic; a narrow one is used)
BalanceMax == 2
\* largest value of T::BlockNumber
BlockNumberMax == 2
\* largest value of T::Nonce
NonceMax == 2

AccountId == {"alice", "bob", "charlie"}
Content == {"data", "document"}
Balance == 0 .. BalanceMax

\* the accounts and contents the whole-runtime specification draws from
RuntimeAccounts == {"alice", "bob"}
RuntimeContent == {"document"}
RuntimeAmounts == {1, BalanceMax}
\* the account whose nonce the whole-runtime specification increments
RuntimeNonceAccounts == {"alice"}

(* ------------------------------------------------------------------ *)
(* Option, BTreeMap and checked arithmetic                              *)
(* ------------------------------------------------------------------ *)

\* Option<T>: None is the empty sequence, Some(v) the one-element sequence
None == << >>
Some(v) == << v >>
unwrap(o) == o[1]

\* BTreeMap::new()
EmptyMap == [k \in {} |-> 0]
\* BTreeMap::get
get(map, key) == IF key \in DOMAIN map THEN Some(map[key]) ELSE None
\* BTreeMap::insert
insert(map, key, value) ==
    [k \in (DOMAIN map) \cup {key} |-> IF k = key THEN value ELSE map[k]]
\* BTreeMap::remove
remove(map, key) == [k \in (DOMAIN map) \ {key} |-> map[k]]
\* Option::unwrap_or
unwrap_or(o, default) == IF o = None THEN default ELSE unwrap(o)

\* a subtraction that saturates at zero instead of reporting the underflow
checked_sub_saturating(a, b) == IF a >= b THEN Some(a - b) ELSE Some(0)

\* CheckedSub::checked_sub on the unsigned Balance type
checked_sub(a, b) == IF a >= b THEN Some(a - b) ELSE None
\* CheckedAdd::checked_add on the unsigned Balance type
checked_add(a, b) == IF a + b <= BalanceMax THEN Some(a + b) ELSE None

\* `x + one()` on an unsigned type of maximum `max`, with no overflow check:
\* below the maximum the successor; at the maximum the build decides, a
\* panic (overflow checks on) or a wrap to zero (overflow checks off).
add_one(x, max) ==
    IF x < max
    THEN {[panic |-> FALSE, value |-> x + 1]}
    ELSE {[panic |-> TRUE, value |-> x], [panic |-> FALSE, value |-> 0]}

(* ------------------------------------------------------------------ *)
(* State                                                                *)
(* ------------------------------------------------------------------ *)
VARIABLES
    block_number,   \* system::Pallet.block_number
    nonce,          \* system::Pallet.nonce
    balances,       \* balances::Pallet.balances
    claims,         \* proof_of_existence::Pallet.claims
    panicked,       \* the process has aborted on an arithmetic overflow
    last,           \* the last call made on the runtime and what it returned
    written,        \* history: accounts whose balance some call has written
    bumped,         \* history: accounts inc_nonce has been called for
    n_inc_block,    \* history: calls of inc_block_number so far (saturating)
    n_inc_nonce     \* history: calls of inc_nonce so far, per account (saturating)

vars == <<block_number, nonce, balances, claims, panicked, last,
          written, bumped, n_inc_block, n_inc_nonce>>

NoCall == [op |-> "new", caller |-> "-", to |-> "-", amount |-> 0,
           claim |-> "-", result |-> "Ok"]

Call(op, caller, to, amount, claim, result) ==
    [op |-> op, caller |-> caller, to |-> to, amount |-> amount,
     claim |-> claim, result |-> result]

(* ------------------------------------------------------------------ *)
(* balances::Pallet                                                     *)
(* ------------------------------------------------------------------ *)

\* a set_balance that keeps an existing entry (entry().or_insert)
set_balance_if_absent(self, who, amount) ==
    IF who \in DOMAIN self THEN self ELSE insert(self, who, amount)

\* Pallet::set_balance: insert or replace
set_balance(self, who, amount) == insert(self, who, amount)

\* a balance read whose default is one() instead of zero()
balance_default_one(self, who) == unwrap_or(get(self, who), 1)

\* Pallet::balance: the stored value, zero when absent
balance(self, who) == unwrap_or(get(self, who), 0)

\* a transfer that credits the recipient and forgets to debit the caller
transfer_no_debit(self, caller, to, amount) ==
    LET caller_balance == balance(self, caller)
        to_balance == balance(self, to)
        new_caller_balance == checked_sub(caller_balance, amount)
        new_to_balance == checked_add(to_balance, amount)
    IN  IF new_caller_balance = None
        THEN [result |-> "Not enough funds.", balances |-> self]
        ELSE IF new_to_balance = None
        THEN [result |-> "Funds exceed limit.", balances |-> self]
        ELSE [result |-> "Ok",
              balances |-> set_balance(self, to, unwrap(new_to_balance))]

\* a transfer that debits the caller before it checks the recipient's sum
transfer_debit_first(self, caller, to, amount) ==
    LET caller_balance == balance(self, caller)
        to_balance == balance(self, to)
        new_caller_balance == checked_sub(caller_balance, amount)
        new_to_balance == checked_add(to_balance, amount)
    IN  IF new_caller_balance = None
        THEN [result |-> "Not enough funds.", balances |-> self]
        ELSE IF new_to_balance = None
        THEN [result |-> "Funds exceed limit.",
              balances |-> set_balance(self, caller, unwrap(new_caller_balance))]
        ELSE [result |-> "Ok",
              balances |-> set_balance(
                               set_balance(self, caller, unwrap(new_caller_balance)),
                               to, unwrap(new_to_balance))]

\* a transfer that writes the recipient first and the caller last
transfer_swapped_writes(self, caller, to, amount) ==
    LET caller_balance == balance(self, caller)
        to_balance == balance(self, to)
        new_caller_balance == checked_sub(caller_balance, amount)
        new_to_balance == checked_add(to_balance, amount)
    IN  IF new_caller_balance = None
        THEN [result |-> "Not enough funds.", balances |-> self]
        ELSE IF new_to_balance = None
        THEN [result |-> "Funds exceed limit.", balances |-> self]
        ELSE [result |-> "Ok",
              balances |-> set_balance(
                               set_balance(self, to, unwrap(new_to_balance)),
                               caller, unwrap(new_caller_balance))]

\* a transfer that checks the recipient's sum before the caller's funds
transfer_overflow_first(self, caller, to, amount) ==
    LET caller_balance == balance(self, caller)
        to_balance == balance(self, to)
        new_caller_balance == checked_sub(caller_balance, amount)
        new_to_balance == checked_add(to_balance, amount)
    IN  IF new_to_balance = None
        THEN [result |-> "Funds exceed limit.", balances |-> self]
        ELSE IF new_caller_balance = None
        THEN [result |-> "Not enough funds.", balances |-> self]
        ELSE [result |-> "Ok",
              balances |-> set_balance(
                               set_balance(self, caller, unwrap(new_caller_balance)),
                               to, unwrap(new_to_balance))]

\* Pallet::transfer: the result and the storage afterwards
transfer(self, caller, to, amount) ==
    LET caller_balance == balance(self, caller)
        to_balance == balance(self, to)
        new_caller_balance == checked_sub(caller_balance, amount)
        new_to_balance == checked_add(to_balance, amount)
    IN  IF new_caller_balance = None
        THEN [result |-> "Not enough funds.", balances |-> self]
        ELSE IF new_to_balance = None
        THEN [result |-> "Funds exceed limit.", balances |-> self]
        ELSE [result |-> "Ok",
              balances |-> set_balance(
                               set_balance(self, caller, unwrap(new_caller_balance)),
                               to, unwrap(new_to_balance))]

\* balances::Call: the calls the balances pallet exposes to the dispatcher
BalancesCall ==
    {[tag |-> "Transfer", to |-> to, amount |-> amount] :
        to \in AccountId, amount \in Balance}

\* a dispatch that drops the result of the call and reports success
balances_dispatch_swallow(self, caller, call) ==
    LET r == transfer(self, caller, call.to, call.amount)
    IN  [result |-> "Ok", balances |-> r.balances]

\* <Pallet as Dispatch>::dispatch: `self.transfer(..)?; Ok(())`
balances_dispatch(self, caller, call) ==
    LET r == transfer(self, caller, call.to, call.amount)
    IN  IF r.result # "Ok"
        THEN [result |-> r.result, balances |-> r.balances]
        ELSE [result |-> "Ok", balances |-> r.balances]

(* ------------------------------------------------------------------ *)
(* proof_of_existence::Pallet                                           *)
(* ------------------------------------------------------------------ *)

\* Pallet::get_claim
get_claim(self, claim) == get(self, claim)

\* a create_claim that only refuses a claim owned by somebody else
create_claim_own_again(self, caller, claim) ==
    IF get_claim(self, claim) # None /\ get_claim(self, claim) # Some(caller)
    THEN [result |-> "claim already exist", claims |-> self]
    ELSE [result |-> "Ok", claims |-> insert(self, claim, caller)]

\* a create_claim that inserts without looking for an existing claim
create_claim_overwrite(self, caller, claim) ==
    [result |-> "Ok", claims |-> insert(self, claim, caller)]

\* Pallet::create_claim
create_claim(self, caller, claim) ==
    IF get_claim(self, claim) # None
    THEN [result |-> "claim already exist", claims |-> self]
    ELSE [result |-> "Ok", claims |-> insert(self, claim, caller)]

\* a revoke_claim without the ownership check
revoke_claim_any_caller(self, caller, claim) ==
    LET owner == get_claim(self, claim)
    IN  IF owner = None
        THEN [result |-> "claim does not exist", claims |-> self]
        ELSE [result |-> "Ok", claims |-> remove(self, claim)]

\* a revoke_claim that compares the owner before it looks for the claim
revoke_claim_owner_first(self, caller, claim) ==
    LET owner == get_claim(self, claim)
    IN  IF owner # Some(caller)
        THEN [result |-> "Caller is not the owner", claims |-> self]
        ELSE [result |-> "Ok", claims |-> remove(self, claim)]

\* a revoke_claim that passes its checks and forgets to remove the entry
revoke_claim_keep(self, caller, claim) ==
    LET owner == get_claim(self, claim)
    IN  IF owner = None
        THEN [result |-> "claim does not exist", claims |-> self]
        ELSE IF unwrap(owner) # caller
        THEN [result |-> "Caller is not the owner", claims |-> self]
        ELSE [result |-> "Ok", claims |-> self]

\* a revoke_claim that removes the entry before it compares the owner
revoke_claim_remove_first(self, caller, claim) ==
    LET owner == get_claim(self, claim)
    IN  IF owner = None
        THEN [result |-> "claim does not exist", claims |-> self]
        ELSE IF unwrap(owner) # caller
        THEN [result |-> "Caller is not the owner", claims |-> remove(self, claim)]
        ELSE [result |-> "Ok", claims |-> remove(self, claim)]

\* Pallet::revoke_claim
revoke_claim(self, caller, claim) ==
    LET owner == get_claim(self, claim)
    IN  IF owner = None
        THEN [result |-> "claim does not exist", claims |-> self]
        ELSE IF unwrap(owner) # caller
        THEN [result |-> "Caller is not the owner", claims |-> self]
        ELSE [result |-> "Ok", claims |-> remove(self, claim)]

\* proof_of_existence::Call: the calls the pallet exposes to the dispatcher
PoeCall ==
    {[tag |-> tag, claim |-> claim] :
        tag \in {"CreateClaim", "RevokeClaim"}, claim \in Content}

\* <Pallet as Dispatch>::dispatch: match on the call, `?` on its result
poe_dispatch(self, caller, call) ==
    LET r == IF call.tag = "CreateClaim"
             THEN create_claim(self, caller, call.claim)
             ELSE revoke_claim(self, caller, call.claim)
    IN  IF r.result # "Ok"
        THEN [result |-> r.result, claims |-> r.claims]
        ELSE [result |-> "Ok", claims |-> r.claims]

(* ------------------------------------------------------------------ *)
(* system::Pallet                                                       *)
(* ------------------------------------------------------------------ *)

\* the nonce read of inc_nonce: the stored value, zero when absent
nonce_of(self, who) == unwrap_or(get(self, who), 0)

\* an inc_block_number that assigns one() instead of adding it
inc_block_number_assign(self) == {[panic |-> FALSE, value |-> 1]}

\* an inc_block_number that subtracts one() (`-=` for `+=`)
inc_block_number_decrement(self) ==
    IF self > 0
    THEN {[panic |-> FALSE, value |-> self - 1]}
    ELSE {[panic |-> TRUE, value |-> self],
          [panic |-> FALSE, value |-> BlockNumberMax]}

\* Pallet::inc_block_number: the possible outcomes of `+= one()`
inc_block_number(self) == add_one(self, BlockNumberMax)

\* an inc_nonce that starts from zero whatever the stored nonce
inc_nonce_from_zero(self, who) ==
    {[panic |-> o.panic,
      nonce |-> IF o.panic THEN self ELSE insert(self, who, o.value)] :
        o \in add_one(0, NonceMax)}

\* Pallet::inc_nonce: the possible outcomes; the entry is written on success
inc_nonce(self, who) ==
    {[panic |-> o.panic,
      nonce |-> IF o.panic THEN self ELSE insert(self, who, o.value)] :
        o \in add_one(nonce_of(self, who), NonceMax)}

(* ------------------------------------------------------------------ *)
(* Runtime                                                              *)
(* ------------------------------------------------------------------ *)

\* Runtime::new: every pallet's new()
Init ==
    /\ block_number = 0
    /\ nonce = EmptyMap
    /\ balances = EmptyMap
    /\ claims = EmptyMap
    /\ panicked = FALSE
    /\ last = NoCall
    /\ written = {}
    /\ bumped = {}
    /\ n_inc_block = 0
    /\ n_inc_nonce = [a \in AccountId |-> 0]

SetBalance(who, amount) ==
    /\ ~panicked
    /\ balances' = set_balance(balances, who, amount)
    /\ last' = Call("set_balance", who, "-", amount, "-", "Ok")
    /\ written' = written \cup {who}
    /\ UNCHANGED <<block_number, nonce, claims, panicked, bumped, n_inc_block,
                       n_inc_nonce>>

Transfer(caller, to, amount) ==
    LET r == transfer(balances, caller, to, amount)
    IN  /\ ~panicked
        /\ balances' = r.balances
        /\ last' = Call("transfer", caller, to, amount, "-", r.result)
        /\ written' = IF r.result = "Ok" THEN written \cup {caller, to} ELSE written
        /\ UNCHANGED <<block_number, nonce, claims, panicked, bumped, n_inc_block,
                       n_inc_nonce>>

CreateClaim(caller, claim) ==
    LET r == create_claim(claims, caller, claim)
    IN  /\ ~panicked
        /\ claims' = r.claims
        /\ last' = Call("create_claim", caller, "-", 0, claim, r.result)
        /\ UNCHANGED <<block_number, nonce, balances, panicked, written, bumped,
                       n_inc_block, n_inc_nonce>>

RevokeClaim(caller, claim) ==
    LET r == revoke_claim(claims, caller, claim)
    IN  /\ ~panicked
        /\ claims' = r.claims
        /\ last' = Call("revoke_claim", caller, "-", 0, claim, r.result)
        /\ UNCHANGED <<block_number, nonce, balances, panicked, written, bumped,
                       n_inc_block, n_inc_nonce>>

IncBlockNumber ==
    /\ ~panicked
    /\ \E o \in inc_block_number(block_number) :
          /\ block_number' = o.value
          /\ panicked' = o.panic
          /\ last' = Call("inc_block_number", "-", "-", 0, "-",
                          IF o.panic THEN "panic" ELSE "Ok")
    /\ n_inc_block' = IF n_inc_block <= BlockNumberMax
                      THEN n_inc_block + 1 ELSE n_inc_block
    /\ UNCHANGED <<nonce, balances, claims, written, bumped, n_inc_nonce>>

IncNonce(who) ==
    /\ ~panicked
    /\ \E o \in inc_nonce(nonce, who) :
          /\ nonce' = o.nonce
          /\ panicked' = o.panic
          /\ last' = Call("inc_nonce", who, "-", 0, "-",
                          IF o.panic THEN "panic" ELSE "Ok")
    /\ bumped' = bumped \cup {who}
    /\ n_inc_nonce' = [n_inc_nonce EXCEPT
                         ![who] = IF @ <= NonceMax THEN @ + 1 ELSE @]
    /\ UNCHANGED <<block_number, balances, claims, written, n_inc_block>>

\* a dispatch that also increments the caller's nonce
DispatchBalances_inc_nonce(caller, call) ==
    LET r == balances_dispatch(balances, caller, call)
    IN  /\ ~panicked
        /\ balances' = r.balances
        /\ nonce' = insert(nonce, caller,
                           (nonce_of(nonce, caller) + 1) % (NonceMax + 1))
        /\ last' = Call("dispatch_transfer", caller, call.to, call.amount, "-",
                        r.result)
        /\ written' = IF r.result = "Ok" THEN written \cup {caller, call.to}
                                         ELSE written
        /\ UNCHANGED <<block_number, claims, panicked, bumped, n_inc_block,
                       n_inc_nonce>>

DispatchBalances(caller, call) ==
    LET r == balances_dispatch(balances, caller, call)
    IN  /\ ~panicked
        /\ balances' = r.balances
        /\ last' = Call("dispatch_transfer", caller, call.to, call.amount, "-",
                        r.result)
        /\ written' = IF r.result = "Ok" THEN written \cup {caller, call.to}
                                         ELSE written
        /\ UNCHANGED <<block_number, nonce, claims, panicked, bumped, n_inc_block,
                       n_inc_nonce>>

DispatchPoe(caller, call) ==
    LET r == poe_dispatch(claims, caller, call)
    IN  /\ ~panicked
        /\ claims' = r.claims
        /\ last' = Call(IF call.tag = "CreateClaim" THEN "dispatch_create_claim"
                                                    ELSE "dispatch_revoke_claim",
                        caller, "-", 0, call.claim, r.result)
        /\ UNCHANGED <<block_number, nonce, balances, panicked, written, bumped,
                       n_inc_block, n_inc_nonce>>

\* the balances pallet on its own
NextBalances ==
    \/ \E who \in AccountId, amount \in Balance : SetBalance(who, amount)
    \/ \E caller \in AccountId, to \in AccountId, amount \in Balance :
          Transfer(caller, to, amount)
    \/ \E caller \in AccountId, call \in BalancesCall : DispatchBalances(caller, call)

\* the proof-of-existence pallet on its own
NextPoe ==
    \/ \E caller \in AccountId, claim \in Content : CreateClaim(caller, claim)
    \/ \E caller \in AccountId, claim \in Content : RevokeClaim(caller, claim)
    \/ \E caller \in AccountId, call \in PoeCall : DispatchPoe(caller, call)

\* the system pallet on its own
NextSystem ==
    \/ IncBlockNumber
    \/ \E who \in AccountId : IncNonce(who)

\* the calls the whole-runtime specification dispatches
RuntimeBalancesCall ==
    {call \in BalancesCall :
        call.to \in RuntimeAccounts /\ call.amount \in RuntimeAmounts}
RuntimePoeCall == {call \in PoeCall : call.claim \in RuntimeContent}

\* the whole runtime
Next ==
    \/ \E who \in RuntimeAccounts, amount \in RuntimeAmounts : SetBalance(who, amount)
    \/ \E caller \in RuntimeAccounts, to \in RuntimeAccounts, amount \in RuntimeAmounts :
          Transfer(caller, to, amount)
    \/ \E caller \in RuntimeAccounts, claim \in RuntimeContent : CreateClaim(caller, claim)
    \/ \E caller \in RuntimeAccounts, claim \in RuntimeContent : RevokeClaim(caller, claim)
    \/ \E caller \in RuntimeAccounts, call \in RuntimeBalancesCall :
          DispatchBalances(caller, call)
    \/ \E caller \in RuntimeAccounts, call \in RuntimePoeCall :
          DispatchPoe(caller, call)
    \/ IncBlockNumber
    \/ \E who \in RuntimeNonceAccounts : IncNonce(who)

Spec == Init /\ [][Next]_vars
SpecBalances == Init /\ [][NextBalances]_vars
SpecPoe == Init /\ [][NextPoe]_vars
SpecSystem == Init /\ [][NextSystem]_vars

TypeOK ==
    /\ block_number \in 0 .. BlockNumberMax
    /\ DOMAIN nonce \subseteq AccountId
    /\ \A a \in DOMAIN nonce : nonce[a] \in 0 .. NonceMax
    /\ DOMAIN balances \subseteq AccountId
    /\ \A a \in DOMAIN balances : balances[a] \in Balance
    /\ DOMAIN claims \subseteq Content
    /\ \A c \in DOMAIN claims : claims[c] \in AccountId
    /\ panicked \in BOOLEAN

(* ------------------------------------------------------------------ *)
(* Properties.  In an action formula the unprimed variables are the     *)
(* state before the call and last' is the call and its result.          *)
(* ------------------------------------------------------------------ *)

\* C1: a transfer of more than the caller's balance, to any recipient
\* (the caller included), returns "Not enough funds." and leaves the
\* balances map exactly as it was: no balance changes, no entry appears.
C1_InsufficientFunds ==
    [][ (last'.op = "transfer" /\ balance(balances, last'.caller) < last'.amount)
          => (last'.result = "Not enough funds." /\ balances' = balances) ]_vars

\* C1 witness: a transfer has failed for lack of funds although the caller
\* holds something, and the recipient still has no entry.
C1_Witness ==
    /\ last.op = "transfer"
    /\ last.result = "Not enough funds."
    /\ 0 < balance(balances, last.caller)
    /\ balance(balances, last.caller) < last.amount
    /\ last.to # last.caller
    /\ last.to \notin DOMAIN balances

\* C2: a successful transfer between two different accounts debits the
\* caller by amount, credits the recipient by amount, keeps their sum and
\* leaves every other account as it was.
C2_TransferMovesAmount ==
    [][ (last'.op = "transfer" /\ last'.result = "Ok" /\ last'.caller # last'.to)
          => /\ balance(balances', last'.caller)
                   = balance(balances, last'.caller) - last'.amount
             /\ balance(balances', last'.to)
                   = balance(balances, last'.to) + last'.amount
             /\ balance(balances', last'.caller) + balance(balances', last'.to)
                   = balance(balances, last'.caller) + balance(balances, last'.to)
             /\ \A a \in AccountId \ {last'.caller, last'.to} :
                   get(balances', a) = get(balances, a) ]_vars

\* C2 witness: a transfer of a positive amount between two accounts has
\* succeeded while a third account holds a balance.
C2_Witness ==
    /\ last.op = "transfer"
    /\ last.result = "Ok"
    /\ last.caller # last.to
    /\ last.amount > 0
    /\ balance(balances, last.to) > last.amount
    /\ \E a \in AccountId \ {last.caller, last.to} : balance(balances, a) > 0

\* C3: a transfer from an account to itself succeeds when the amount is
\* within the balance and then leaves the balance as it was; when the amount
\* exceeds the balance it fails and changes nothing.
C3_SelfTransferNoOp ==
    [][ (last'.op = "transfer" /\ last'.caller = last'.to)
          => IF last'.amount <= balance(balances, last'.caller)
             THEN /\ last'.result = "Ok"
                  /\ balance(balances', last'.caller) = balance(balances, last'.caller)
             ELSE /\ last'.result # "Ok"
                  /\ balances' = balances ]_vars

\* C4: a transfer the caller can afford but whose amount would take the
\* recipient above the largest Balance returns "Funds exceed limit." and
\* leaves the balances map exactly as it was: the caller is not debited.
C4_BalanceOverflow ==
    [][ (/\ last'.op = "transfer"
         /\ balance(balances, last'.caller) >= last'.amount
         /\ balance(balances, last'.to) + last'.amount > BalanceMax)
          => (last'.result = "Funds exceed limit." /\ balances' = balances) ]_vars

\* C4 witness: a transfer between two accounts has failed on the recipient's
\* overflow and the caller still holds the amount.
C4_Witness ==
    /\ last.op = "transfer"
    /\ last.result = "Funds exceed limit."
    /\ last.caller # last.to
    /\ last.amount > 0
    /\ balance(balances, last.caller) >= last.amount
    /\ balance(balances, last.to) + last.amount > BalanceMax

\* C5: create_claim on a claimed content fails with "claim already exist"
\* for every caller, the owner included, and changes no claim; on an
\* unclaimed content it succeeds and the caller is the owner afterwards.
C5_CreateClaim ==
    [][ last'.op = "create_claim"
          => IF get_claim(claims, last'.claim) # None
             THEN /\ last'.result = "claim already exist"
                  /\ claims' = claims
             ELSE /\ last'.result = "Ok"
                  /\ get_claim(claims', last'.claim) = Some(last'.caller) ]_vars

\* C5 witness: the owner of a content has tried to claim it again, and has
\* been refused.
C5_Witness ==
    /\ last.op = "create_claim"
    /\ last.result = "claim already exist"
    /\ get_claim(claims, last.claim) = Some(last.caller)

\* C6: revoke_claim by anyone but the owner of a claimed content fails with
\* "Caller is not the owner" and changes no claim.
C6_RevokeNotOwner ==
    [][ (/\ last'.op = "revoke_claim"
         /\ get_claim(claims, last'.claim) # None
         /\ get_claim(claims, last'.claim) # Some(last'.caller))
          => (last'.result = "Caller is not the owner" /\ claims' = claims) ]_vars

\* C6 witness: a revocation by a non-owner has been refused and the owner
\* still holds the claim.
C6_Witness ==
    /\ last.op = "revoke_claim"
    /\ last.result = "Caller is not the owner"
    /\ get_claim(claims, last.claim) # None
    /\ get_claim(claims, last.claim) # Some(last.caller)

\* C7: revoke_claim on an unclaimed content fails with "claim does not
\* exist" for every caller and changes no claim.
C7_RevokeNotFound ==
    [][ (last'.op = "revoke_claim" /\ get_claim(claims, last'.claim) = None)
          => (last'.result = "claim does not exist" /\ claims' = claims) ]_vars

\* C7 witness: a revocation of an unclaimed content has been refused while
\* the caller owns another claim.
C7_Witness ==
    /\ last.op = "revoke_claim"
    /\ last.result = "claim does not exist"
    /\ get_claim(claims, last.claim) = None
    /\ \E c \in Content : get_claim(claims, c) = Some(last.caller)

\* C8: revoke_claim by the owner succeeds, removes the entry of that content
\* and no other, and leaves the content free for any account to claim;
\* create_claim(o, c) on an unclaimed c followed by revoke_claim(o, c) gives
\* the claims map back.
C8_RevokeByOwner ==
    /\ [][ (last'.op = "revoke_claim"
              /\ get_claim(claims, last'.claim) = Some(last'.caller))
             => /\ last'.result = "Ok"
                /\ get_claim(claims', last'.claim) = None
                /\ \A d \in Content \ {last'.claim} :
                      get_claim(claims', d) = get_claim(claims, d)
                /\ \A x \in AccountId :
                      create_claim(claims', x, last'.claim).result = "Ok" ]_vars
    /\ [](\A o \in AccountId, c \in Content :
            get_claim(claims, c) = None
              => LET created == create_claim(claims, o, c)
                     revoked == revoke_claim(created.claims, o, c)
                 IN  /\ created.result = "Ok"
                     /\ revoked.result = "Ok"
                     /\ revoked.claims = claims)

\* C8 witness: an owner has revoked a claim while another claim stands.
C8_Witness ==
    /\ last.op = "revoke_claim"
    /\ last.result = "Ok"
    /\ get_claim(claims, last.claim) = None
    /\ \E d \in Content : get_claim(claims, d) # None

\* C9: an account no call has written reads a zero balance, an account
\* inc_nonce was never called for reads a zero nonce, and the freshly
\* constructed runtime has block number zero, no claim, no balance and no
\* nonce.
C9_DefaultsAreZero ==
    /\ \A a \in AccountId \ written : balance(balances, a) = 0
    /\ \A a \in AccountId \ bumped : nonce_of(nonce, a) = 0
    /\ last.op = "new"
         => /\ block_number = 0
            /\ \A c \in Content : get_claim(claims, c) = None
            /\ \A a \in AccountId :
                  balance(balances, a) = 0 /\ nonce_of(nonce, a) = 0

\* C9 witness: one account has been written and bumped, another has been
\* neither, after a transfer towards the untouched account failed.
C9_Witness ==
    /\ last.op = "transfer"
    /\ last.result # "Ok"
    /\ last.to \notin written
    /\ last.to \notin bumped
    /\ balance(balances, last.caller) > 0
    /\ nonce_of(nonce, last.caller) > 0
    /\ block_number > 0

\* C10: after n calls of inc_block_number, n up to the largest BlockNumber,
\* interleaved with any other calls, the block number is n; each call below
\* the maximum adds exactly one and changes no nonce.
C10_BlockNumberCounts ==
    /\ [](n_inc_block <= BlockNumberMax => block_number = n_inc_block)
    /\ [][ (last'.op = "inc_block_number" /\ block_number < BlockNumberMax)
             => (block_number' = block_number + 1 /\ nonce' = nonce) ]_vars

\* C10 witness: the block number has been advanced to its maximum by as many
\* calls, with balance, nonce and claim calls in between.
C10_Witness ==
    /\ last.op = "inc_block_number"
    /\ n_inc_block = BlockNumberMax
    /\ block_number = BlockNumberMax
    /\ written # {}
    /\ bumped # {}
    /\ DOMAIN claims # {}

\* C11: after n calls of inc_nonce(a), n up to the largest Nonce, the nonce
\* of a is n whatever inc_nonce calls for other accounts came in between;
\* a call below the maximum writes the entry of a (creating it when absent),
\* changes no other account's entry and leaves the block number alone.
C11_NonceCounts ==
    /\ [](\A a \in AccountId :
            n_inc_nonce[a] <= NonceMax => nonce_of(nonce, a) = n_inc_nonce[a])
    /\ [][ (last'.op = "inc_nonce" /\ nonce_of(nonce, last'.caller) < NonceMax)
             => /\ get(nonce', last'.caller)
                     = Some(nonce_of(nonce, last'.caller) + 1)
                /\ \A b \in AccountId \ {last'.caller} :
                      get(nonce', b) = get(nonce, b)
                /\ block_number' = block_number ]_vars

\* C11 witness: one account has reached the largest nonce by as many calls
\* while another account has been bumped a different number of times and
\* the block number has moved.
C11_Witness ==
    /\ last.op = "inc_nonce"
    /\ n_inc_nonce[last.caller] = NonceMax
    /\ nonce_of(nonce, last.caller) = NonceMax
    /\ block_number > 0
    /\ \E b \in AccountId \ {last.caller} :
          /\ n_inc_nonce[b] > 0
          /\ n_inc_nonce[b] < NonceMax
          /\ nonce_of(nonce, b) = n_inc_nonce[b]

\* C12: dispatching Transfer{to, amount}, CreateClaim(c) or RevokeClaim(c)
\* for a caller gives the result and the storage the direct call of
\* transfer, create_claim or revoke_claim gives, and a dispatch step applies
\* that one call and touches nothing outside the pallet.
C12_DispatchIsDirectCall ==
    /\ [](\A caller \in AccountId, to \in AccountId, amount \in Balance :
            balances_dispatch(balances, caller,
                              [tag |-> "Transfer", to |-> to, amount |-> amount])
              = transfer(balances, caller, to, amount))
    /\ [](\A caller \in AccountId, c \in Content :
            /\ poe_dispatch(claims, caller, [tag |-> "CreateClaim", claim |-> c])
                 = create_claim(claims, caller, c)
            /\ poe_dispatch(claims, caller, [tag |-> "RevokeClaim", claim |-> c])
                 = revoke_claim(claims, caller, c))
    /\ [][ /\ last'.op = "dispatch_transfer"
             => LET r == transfer(balances, last'.caller, last'.to, last'.amount)
                IN  /\ last'.result = r.result
                    /\ balances' = r.balances
                    /\ UNCHANGED <<block_number, nonce, claims>>
           /\ last'.op = "dispatch_create_claim"
             => LET r == create_claim(claims, last'.caller, last'.claim)
                IN  /\ last'.result = r.result
                    /\ claims' = r.claims
                    /\ UNCHANGED <<block_number, nonce, balances>>
           /\ last'.op = "dispatch_revoke_claim"
             => LET r == revoke_claim(claims, last'.caller, last'.claim)
                IN  /\ last'.result = r.result
                    /\ claims' = r.claims
                    /\ UNCHANGED <<block_number, nonce, balances>> ]_vars

\* C12 witness: a dispatched transfer has been refused for lack of funds
\* while a claim made through dispatch stands.
C12_Witness ==
    /\ last.op = "dispatch_transfer"
    /\ last.result = "Not enough funds."
    /\ balance(balances, last.caller) < last.amount
    /\ DOMAIN claims # {}
    /\ written # {}

\* C13: a call that returns an error leaves the block number, the nonces,
\* the balances and the claims exactly as the earlier calls left them:
\* nothing is rolled back and the next call runs against that state.
C13_NoRollback ==
    [][ last'.result \notin {"Ok", "panic"}
          => UNCHANGED <<block_number, nonce, balances, claims>> ]_vars

\* C13 witness: a call has failed after a block was started, a nonce was
\* incremented, funds were moved to a second account and a claim was made,
\* and all of that is still in place.
C13_Witness ==
    /\ last.result \notin {"Ok", "panic"}
    /\ block_number > 0
    /\ \E a \in AccountId : nonce_of(nonce, a) > 0
    /\ \A a \in RuntimeAccounts : balance(balances, a) > 0
    /\ DOMAIN claims # {}

\* C14: a successful transfer from an account to itself stores the second
\* write, the balance read before the transfer plus the amount.
C14_SelfTransferStoresCredit ==
    [][ (last'.op = "transfer" /\ last'.result = "Ok" /\ last'.caller = last'.to)
          => get(balances', last'.caller)
               = Some(balance(balances, last'.caller) + last'.amount) ]_vars

\* C14 witness: a transfer of a positive amount from an account to itself
\* has succeeded.
C14_Witness ==
    /\ last.op = "transfer"
    /\ last.result = "Ok"
    /\ last.caller = last.to
    /\ last.amount > 0
    /\ balance(balances, last.caller) > last.amount

\* C15: a content has at most one owner in every state, and a claimed
\* content keeps its owner through every call except a successful
\* revoke_claim of that content by that owner (direct or dispatched), which
\* leaves it unclaimed: the owner never changes directly to another account.
C15_OwnerChangesOnlyByRevoke ==
    /\ [](\A c \in Content :
            Cardinality({o \in AccountId : get_claim(claims, c) = Some(o)}) <= 1)
    /\ [][ \A c \in Content :
             get_claim(claims, c) # None
               => \/ get_claim(claims', c) = get_claim(claims, c)
                  \/ /\ get_claim(claims', c) = None
                     /\ last'.op \in {"revoke_claim", "dispatch_revoke_claim"}
                     /\ last'.result = "Ok"
                     /\ last'.claim = c
                     /\ Some(last'.caller) = get_claim(claims, c) ]_vars

\* C15 witness: with both contents claimed, an account has tried to claim a
\* content somebody else owns, and the owner is still the owner.
C15_Witness ==
    /\ last.op = "create_claim"
    /\ last.result = "claim already exist"
    /\ get_claim(claims, last.claim) # Some(last.caller)
    /\ \A c \in Content : get_claim(claims, c) # None

\* C16: set_balance and transfer (direct or dispatched, successful or not)
\* leave the block number, the nonces and the claims alone; create_claim and
\* revoke_claim leave the balances, the nonces and the block number alone;
\* inc_block_number and inc_nonce leave the balances and the claims alone.
C16_PalletsAreFramed ==
    [][ /\ last'.op \in {"set_balance", "transfer", "dispatch_transfer"}
             => UNCHANGED <<block_number, nonce, claims>>
        /\ last'.op \in {"create_claim", "revoke_claim",
                         "dispatch_create_claim", "dispatch_revoke_claim"}
             => UNCHANGED <<block_number, nonce, balances>>
        /\ last'.op \in {"inc_block_number", "inc_nonce"}
             => UNCHANGED <<balances, claims>> ]_vars

\* C16 witness: an account whose nonce was never incremented has moved funds
\* through dispatch, and its nonce still reads zero, in a runtime with a
\* started block and a claim.
C16_Witness ==
    /\ last.op = "dispatch_transfer"
    /\ last.result = "Ok"
    /\ last.amount > 0
    /\ last.caller \notin DOMAIN nonce
    /\ block_number > 0
    /\ DOMAIN nonce # {}
    /\ DOMAIN claims # {}

\* C17 as stated: the block number starts at zero and never decreases from
\* one state to the next, no account's nonce (absent read as zero) ever
\* decreases, and no nonce entry is ever deleted.
C17_NeverDecreases ==
    /\ block_number = 0
    /\ [][ /\ block_number' >= block_number
           /\ \A a \in AccountId : nonce_of(nonce', a) >= nonce_of(nonce, a)
           /\ DOMAIN nonce \subseteq DOMAIN nonce' ]_vars

\* C17 as amended: the block number starts at zero; a step from a state
\* where the block number is below the largest BlockNumber does not decrease
\* it, a step from a state where an account's nonce is below the largest
\* Nonce does not decrease that nonce, and no step deletes a nonce entry.
\* (At the maximum the unchecked increment aborts or wraps to zero.)
C17_NeverDecreasesBelowMax ==
    /\ block_number = 0
    /\ [][ /\ block_number < BlockNumberMax => block_number' >= block_number
           /\ \A a \in AccountId :
                 nonce_of(nonce, a) < NonceMax
                   => nonce_of(nonce', a) >= nonce_of(nonce, a)
           /\ DOMAIN nonce \subseteq DOMAIN nonce' ]_vars

\* C17 witness: block number and two nonces have advanced, none of them has
\* overflowed, and the last increment succeeded.
C17_Witness ==
    /\ last.result = "Ok"
    /\ last.op = "inc_block_number"
    /\ block_number > 0
    /\ n_inc_block = block_number
    /\ Cardinality({a \in AccountId :
                      nonce_of(nonce, a) > 0 /\ n_inc_nonce[a] = nonce_of(nonce, a)}) >= 2

\* C18: set_balance(a, x) never fails; afterwards the balance of a is x
\* whatever was stored, every other account is as it was, and a second
\* set_balance(a, x) changes nothing.
C18_SetBalanceOverwrites ==
    [][ last'.op = "set_balance"
          => /\ last'.result = "Ok"
             /\ get(balances', last'.caller) = Some(last'.amount)
             /\ balance(balances', last'.caller) = last'.amount
             /\ \A b \in AccountId \ {last'.caller} :
                   get(balances', b) = get(balances, b)
             /\ set_balance(balances', last'.caller, last'.amount) = balances' ]_vars

\* C18 witness: a balance has been set to a value below the maximum while
\* the other accounts hold the maximum.
C18_Witness ==
    /\ last.op = "set_balance"
    /\ balance(balances, last.caller) = last.amount
    /\ last.amount = 1
    /\ \A b \in AccountId \ {last.caller} : balance(balances, b) = BalanceMax

\* the sum of the balances of the accounts in `accounts`
RECURSIVE sum_of_balances(_, _)
sum_of_balances(self, accounts) ==
    IF accounts = {} THEN 0
    ELSE LET a == CHOOSE x \in accounts : TRUE
         IN  balance(self, a) + sum_of_balances(self, accounts \ {a})

\* C19: no transfer, successful or failed, direct or dispatched, whoever
\* the caller and the recipient (the same account included), changes the sum
\* of all balances.
C19_TransferKeepsTotal ==
    [][ last'.op \in {"transfer", "dispatch_transfer"}
          => sum_of_balances(balances', AccountId)
               = sum_of_balances(balances, AccountId) ]_vars

\* C20: a transfer that lacks funds and would also overflow the recipient
\* returns "Not enough funds."; "Funds exceed limit." is returned only when
\* the caller holds at least the amount.
C20_FundsCheckedFirst ==
    /\ [][ (/\ last'.op = "transfer"
            /\ balance(balances, last'.caller) < last'.amount
            /\ balance(balances, last'.to) + last'.amount > BalanceMax)
             => last'.result = "Not enough funds." ]_vars
    /\ [][ (last'.op = "transfer" /\ last'.result = "Funds exceed limit.")
             => balance(balances, last'.caller) >= last'.amount ]_vars

\* C20 witness: a transfer that failed both checks has been refused for lack
\* of funds.
C20_Witness ==
    /\ last.op = "transfer"
    /\ last.result = "Not enough funds."
    /\ last.caller # last.to
    /\ balance(balances, last.caller) < last.amount
    /\ balance(balances, last.to) + last.amount > BalanceMax
====
